---- MODULE Spec2Model ----
(***************************************************************************)
(* A model of the Amass Data Manager service (DataManagerService), of its  *)
(* output stage and of the certificate / archive source workers (Crtsh,    *)
(* CertSpotter, PTRArchive).                                               *)
(*                                                                         *)
(* Strings are sequences of one-character strings, so that lower-casing,   *)
(* trailing-dot removal, splitting and suffix matching are computed on the *)
(* characters, as the Go code computes them.                               *)
(***************************************************************************)
EXTENDS Integers, Sequences, FiniteSets, TLC

VARIABLES
    filter,         \* dms.filter: names already seen by sendOutput
    domainFilter,   \* dms.domainFilter: domains already seen by insertDomain
    dataSrcFilter,  \* the enumeration's DupDataSourceName set of <<name, source>>
    newNames,       \* all NEWNAME publications so far: <<name, source>> -> count
    wk,             \* each source worker's place in startRootDomains
    output,         \* all OUTPUT publications so far, in order
    active,         \* services that called SetActive
    recordsShared,  \* whether an element of req.Records is shared with the range copy
    dmState,        \* where processRequests is: "select", "handled", "paused", "done"
    last,           \* what the case of the select that ran last did
    prev,           \* the step before last, when it handled the same request
    quit,           \* whether the service's quit channel has been closed
    graphOut,       \* what Graph.GetNewOutput returns when called next
    canon           \* a string and what cleaning it once and twice gave

vars == <<filter, domainFilter, dataSrcFilter, newNames, wk, output, active,
          recordsShared, dmState, last, prev, quit, graphOut, canon>>

-----------------------------------------------------------------------------
(* Strings                                                                 *)

Uppers == <<"A","B","C","D","E","F","G","H","I","J","K","L","M",
            "N","O","P","Q","R","S","T","U","V","W","X","Y","Z">>
Lowers == <<"a","b","c","d","e","f","g","h","i","j","k","l","m",
            "n","o","p","q","r","s","t","u","v","w","x","y","z">>
Digits == {"0","1","2","3","4","5","6","7","8","9"}

UpperSet == {Uppers[i] : i \in 1..Len(Uppers)}
LowerSet == {Lowers[i] : i \in 1..Len(Lowers)}
LowerOf == [c \in UpperSet |-> Lowers[CHOOSE i \in 1..Len(Uppers) : Uppers[i] = c]]

IsUpper(c) == c \in UpperSet
IsLetter(c) == c \in UpperSet \/ c \in LowerSet

toLowerChar(c) == IF IsUpper(c) THEN LowerOf[c] ELSE c

\* strings.ToLower
ToLower(s) == [i \in 1..Len(s) |-> toLowerChar(s[i])]

\* strings.HasSuffix
HasSuffix(s, suf) ==
    /\ Len(suf) <= Len(s)
    /\ SubSeq(s, Len(s) - Len(suf) + 1, Len(s)) = suf

\* strings.Split(s, sep) for a one-character separator: the fields between
\* the separators, an empty string giving one empty field.
RECURSIVE SplitFrom(_, _, _, _)
SplitFrom(s, sep, i, cur) ==
    IF i > Len(s) THEN <<cur>>
    ELSE IF s[i] = sep THEN <<cur>> \o SplitFrom(s, sep, i + 1, <<>>)
    ELSE SplitFrom(s, sep, i + 1, Append(cur, s[i]))

Split(s, sep) == SplitFrom(s, sep, 1, <<>>)

removeLastChar(name) ==
    LET sz == Len(name) IN
    IF sz > 0 THEN SubSeq(name, 1, sz - 1) ELSE name

removeLastDot(name) ==
    LET sz == Len(name) IN
    IF sz > 0 /\ name[sz] = "." THEN SubSeq(name, 1, sz - 1) ELSE name

Range(s) == {s[i] : i \in 1..Len(s)}

-----------------------------------------------------------------------------
(* Configuration and scope (Config.Domains, IsDomainInScope, WhichDomain,  *)
(* SubdomainToDomain): a name belongs to the longest configured root that  *)
(* it equals or that it ends with after a dot.                             *)

dEC == <<"e", ".", "c">>
dOG == <<"o", ".", "g">>

Domains == <<dEC, dOG>>

MatchesRoot(name, d) == name = d \/ HasSuffix(name, <<".">> \o d)

WhichDomain(name) ==
    LET ms == {i \in 1..Len(Domains) : MatchesRoot(name, Domains[i])} IN
    IF ms = {} THEN <<>>
    ELSE Domains[CHOOSE i \in ms : \A j \in ms : Len(Domains[j]) <= Len(Domains[i])]

SubdomainToDomain(name) == WhichDomain(name)

IsDomainInScope(name) == WhichDomain(name) # <<>>

\* Tags (core.DNS, core.CERT, core.SCRAPE) and source labels.
DNS == "dns"
CERT == "cert"
SCRAPE == "scrape"
ForwardDNS == "Forward DNS"

-----------------------------------------------------------------------------
(* The handlers and the bus.  A context ctx carries the filters through    *)
(* one request together with the calls and publications the request makes. *)

\* dms.Handlers after OnStart: the graph, then the data operations writer.
Handlers == <<"Graph", "DataOpts">>

NoStr == <<>>

Call(h, op, args, tag, source, err) ==
    [h |-> h, op |-> op, args |-> args, tag |-> tag, source |-> source, err |-> err]

Event(topic, name, domain, address, tag, source) ==
    [topic |-> topic, name |-> name, domain |-> domain, address |-> address,
     tag |-> tag, source |-> source]

\* for _, handler := range dms.Handlers { if err := handler.X(...); err != nil { log } }
\* every handler is called in turn; an error is logged and the loop goes on.
RECURSIVE CallFrom(_, _, _, _, _, _, _)
CallFrom(calls, i, op, args, tag, source, failing) ==
    IF i > Len(Handlers) THEN calls
    ELSE CallFrom(Append(calls, Call(Handlers[i], op, args, tag, source,
                                     Handlers[i] \in failing)),
                  i + 1, op, args, tag, source, failing)

\* The loop as it would be if an error ended it.
RECURSIVE CallFromStopOnError(_, _, _, _, _, _, _)
CallFromStopOnError(calls, i, op, args, tag, source, failing) ==
    IF i > Len(Handlers) THEN calls
    ELSE IF Handlers[i] \in failing
         THEN Append(calls, Call(Handlers[i], op, args, tag, source, TRUE))
         ELSE CallFromStopOnError(Append(calls, Call(Handlers[i], op, args, tag,
                                                     source, FALSE)),
                                  i + 1, op, args, tag, source, failing)

CallHandlersStopOnError(ctx, op, args, tag, source, mode) ==
    [ctx EXCEPT !.calls = CallFromStopOnError(@, 1, op, args, tag, source, mode.failing)]

CallHandlers(ctx, op, args, tag, source, mode) ==
    [ctx EXCEPT !.calls = CallFrom(@, 1, op, args, tag, source, mode.failing)]

BagAdd(b, x) == IF x \in DOMAIN b THEN [b EXCEPT ![x] = @ + 1] ELSE b @@ (x :> 1)

\* Bus.Publish
Publish(ctx, ev) ==
    [ctx EXCEPT !.pubs = Append(@, ev),
                !.newNames = IF ev.topic = "NEWNAME"
                             THEN BagAdd(@, <<ev.name, ev.source>>) ELSE @]

\* utils.StringFilter.Duplicate: an atomic test-and-add that returns the
\* membership before the add.
FilterDuplicate(f, s) == s \in f
FilterAdd(f, s) == f \cup {s}

\* Enumeration.DupDataSourceName: Duplicate on the (name, source) tuple.
DupDataSourceName(ctx, req) == FilterDuplicate(ctx.dataSrcFilter, <<req.name, req.source>>)

MarkDataSource(ctx, req) ==
    [ctx EXCEPT !.dataSrcFilter = FilterAdd(@, <<req.name, req.source>>)]

NewName(name, domain, tag, source) == Event("NEWNAME", name, domain, NoStr, tag, source)

sendNewNameUnfiltered(ctx, req) == Publish(MarkDataSource(ctx, req), req)

\* DupDataSourceName adds the tuple whatever it answers.
Drop(ctx, req) == [ctx EXCEPT !.dropped = Append(@, req)]

sendNewName(ctx, req) ==
    IF DupDataSourceName(ctx, req) THEN Drop(MarkDataSource(ctx, req), req)
    ELSE Publish(MarkDataSource(ctx, req), req)

checkDomainInverted(ctx, domain) == ~FilterDuplicate(ctx.domainFilter, domain)

checkDomain(ctx, domain) == FilterDuplicate(ctx.domainFilter, domain)

\* insertDomain as it would be without the domain filter.
insertDomainUnchecked(ctx, dom, mode) ==
    LET domain == ToLower(dom)
        seen == [ctx EXCEPT !.domainFilter = FilterAdd(@, domain)]
    IN IF domain = NoStr THEN ctx
       ELSE sendNewName(
                CallHandlers(seen, "InsertDomain", <<domain>>, DNS, ForwardDNS, mode),
                NewName(domain, domain, DNS, ForwardDNS))

\* domain == "" || dms.checkDomain(domain): the filter is not asked about, and
\* does not learn, the empty domain.
insertDomain(ctx, dom, mode) ==
    LET domain == ToLower(dom)
        seen == [ctx EXCEPT !.domainFilter = FilterAdd(@, domain)]
    IN IF domain = NoStr THEN ctx
       ELSE IF checkDomain(ctx, domain) THEN seen
       ELSE sendNewName(
                CallHandlers(seen, "InsertDomain", <<domain>>, DNS, ForwardDNS, mode),
                NewName(domain, domain, DNS, ForwardDNS))

-----------------------------------------------------------------------------
(* Text scanning for TXT and SPF data (utils.IPv4RE, AnySubdomainRegex).  *)
(* A run is a maximal stretch of the characters a name or an address is   *)
(* made of; the patterns match inside runs.                               *)

IsTokenChar(c) == IsLetter(c) \/ c \in Digits \/ c \in {".", "-", "_"}

RECURSIVE RunsFrom(_, _, _)
RunsFrom(s, i, cur) ==
    IF i > Len(s) THEN (IF cur = <<>> THEN <<>> ELSE <<cur>>)
    ELSE IF IsTokenChar(s[i]) THEN RunsFrom(s, i + 1, Append(cur, s[i]))
    ELSE (IF cur = <<>> THEN <<>> ELSE <<cur>>) \o RunsFrom(s, i + 1, <<>>)

Runs(s) == RunsFrom(s, 1, <<>>)

IsOctet(f) == Len(f) \in 1..3 /\ \A i \in 1..Len(f) : f[i] \in Digits

\* A dotted quad of decimal octets.
IsIPv4(run) ==
    LET fs == Split(run, ".") IN
    Len(fs) = 4 /\ \A i \in 1..4 : IsOctet(fs[i])

IPv4Matches(data) == SelectSeq(Runs(data), IsIPv4)

IsLabel(f) == Len(f) > 0 /\ \A i \in 1..Len(f) : IsLetter(f[i]) \/ f[i] \in Digits \/ f[i] = "_"

\* One or more labels each followed by a dot, then letters: the match in a
\* run is the whole run when its last field is letters only, and the run
\* up to its last dot otherwise.
HasSubMatch(run) ==
    LET fs == Split(run, ".") IN
    Len(fs) >= 2 /\ \A i \in 1..(Len(fs) - 1) : IsLabel(fs[i])

SubMatchOf(run) ==
    LET fs == Split(run, ".")
        lastf == fs[Len(fs)]
    IN IF \A i \in 1..Len(lastf) : IsLetter(lastf[i]) THEN run
       ELSE SubSeq(run, 1, Len(run) - Len(lastf))

RECURSIVE MapSubMatch(_)
MapSubMatch(runs) ==
    IF runs = <<>> THEN <<>> ELSE <<SubMatchOf(Head(runs))>> \o MapSubMatch(Tail(runs))

AnySubdomainMatches(data) == MapSubMatch(SelectSeq(Runs(data), HasSubMatch))

-----------------------------------------------------------------------------
(* The Data Manager's record handlers.  req is the request after          *)
(* manageData lower-cased its name and domain, rec the record as          *)
(* req.Records[recidx] holds it, mode the outcome of the external calls   *)
(* (mode.failing: the handlers that return an error, mode.ipOK: whether   *)
(* IPRequest succeeds).                                                   *)

NewAddr(domain, addr, tag, source) == Event("NEWADDR", NoStr, domain, addr, tag, source)

\* insertInfrastructure as it would be if the lookup's error were ignored.
insertInfrastructureAnyway(ctx, addr, mode) ==
    CallHandlers(ctx, "InsertInfrastructure", <<addr>>, "", "", mode)

insertInfrastructure(ctx, addr, mode) ==
    IF ~mode.ipOK THEN ctx
    ELSE CallHandlers(ctx, "InsertInfrastructure", <<addr>>, "", "", mode)

insertAddrNoEmptyCheck(ctx, req, rec, op, mode) ==
    LET addr == rec.data
        c1 == CallHandlers(ctx, op, <<req.name, req.domain, addr>>,
                           req.tag, req.source, mode)
        c2 == insertInfrastructure(c1, addr, mode)
    IN IF IsDomainInScope(req.name)
       THEN Publish(c2, NewAddr(req.domain, addr, req.tag, req.source))
       ELSE c2

insertAddrNoScopeCheck(ctx, req, rec, op, mode) ==
    LET addr == rec.data IN
    IF addr = NoStr THEN ctx
    ELSE Publish(insertInfrastructure(
                     CallHandlers(ctx, op, <<req.name, req.domain, addr>>,
                                  req.tag, req.source, mode), addr, mode),
                 NewAddr(req.domain, addr, req.tag, req.source))

\* insertA and insertAAAA differ in the handler method only.
insertAddr(ctx, req, rec, op, mode) ==
    LET addr == rec.data IN
    IF addr = NoStr THEN ctx
    ELSE LET c1 == CallHandlers(ctx, op, <<req.name, req.domain, addr>>,
                                req.tag, req.source, mode)
             c2 == insertInfrastructure(c1, addr, mode)
         IN IF IsDomainInScope(req.name)
            THEN Publish(c2, NewAddr(req.domain, addr, req.tag, req.source))
            ELSE c2

insertA(ctx, req, rec, mode) == insertAddr(ctx, req, rec, "InsertA", mode)

insertAAAA(ctx, req, rec, mode) == insertAddr(ctx, req, rec, "InsertAAAA", mode)

insertCNAMEAnyTarget(ctx, req, rec, mode) ==
    LET target == removeLastDot(rec.data)
        domain == SubdomainToDomain(target)
    IN IF target = NoStr THEN ctx
       ELSE sendNewName(
                CallHandlers(insertDomain(ctx, domain, mode), "InsertCNAME",
                             <<req.name, req.domain, target, domain>>,
                             req.tag, req.source, mode),
                NewName(target, domain, DNS, ForwardDNS))

insertCNAME(ctx, req, rec, mode) ==
    LET target == removeLastDot(rec.data)
        domain == SubdomainToDomain(target)
    IN IF target = NoStr THEN ctx
       ELSE IF domain = NoStr THEN ctx
       ELSE sendNewName(
                CallHandlers(insertDomain(ctx, domain, mode), "InsertCNAME",
                             <<req.name, req.domain, target, domain>>,
                             req.tag, req.source, mode),
                NewName(target, domain, DNS, ForwardDNS))

insertPTR(ctx, req, rec, mode) ==
    LET target == removeLastDot(rec.data)
        domain == WhichDomain(target)
    IN IF target = NoStr THEN ctx
       ELSE IF domain = NoStr THEN ctx
       ELSE sendNewName(
                CallHandlers(insertDomain(ctx, domain, mode), "InsertPTR",
                             <<req.name, domain, target>>, req.tag, req.source, mode),
                NewName(target, domain, DNS, req.source))

insertSRV(ctx, req, rec, mode) ==
    LET service == removeLastDot(rec.name)
        target == removeLastDot(rec.data)
    IN IF target = NoStr \/ service = NoStr THEN ctx
       ELSE CallHandlers(ctx, "InsertSRV", <<req.name, req.domain, service, target>>,
                         req.tag, req.source, mode)

\* insertNS as it would be with the first comma-separated field as target.
insertNSFirstField(ctx, req, rec, mode) ==
    LET pieces == Split(rec.data, ",")
        target == pieces[1]
        domain == SubdomainToDomain(target)
    IN IF target = NoStr THEN ctx
       ELSE IF domain = NoStr THEN ctx
       ELSE LET c1 == CallHandlers(insertDomain(ctx, domain, mode), "InsertNS",
                                   <<req.name, req.domain, target, domain>>,
                                   req.tag, req.source, mode)
            IN IF target # domain
               THEN sendNewName(c1, NewName(target, domain, DNS, ForwardDNS))
               ELSE c1

insertNS(ctx, req, rec, mode) ==
    LET pieces == Split(rec.data, ",")
        target == pieces[Len(pieces)]
        domain == SubdomainToDomain(target)
    IN IF target = NoStr THEN ctx
       ELSE IF domain = NoStr THEN ctx
       ELSE LET c1 == CallHandlers(insertDomain(ctx, domain, mode), "InsertNS",
                                   <<req.name, req.domain, target, domain>>,
                                   req.tag, req.source, mode)
            IN IF target # domain
               THEN sendNewName(c1, NewName(target, domain, DNS, ForwardDNS))
               ELSE c1

insertMXAnyTarget(ctx, req, rec, mode) ==
    LET target == removeLastDot(rec.data)
        domain == SubdomainToDomain(target)
    IN IF target = NoStr THEN ctx
       ELSE LET c1 == CallHandlers(insertDomain(ctx, domain, mode), "InsertMX",
                                   <<req.name, req.domain, target, domain>>,
                                   req.tag, req.source, mode)
            IN IF target # domain
               THEN sendNewName(c1, NewName(target, domain, DNS, ForwardDNS))
               ELSE c1

insertMX(ctx, req, rec, mode) ==
    LET target == removeLastDot(rec.data)
        domain == SubdomainToDomain(target)
    IN IF target = NoStr THEN ctx
       ELSE IF domain = NoStr THEN ctx
       ELSE LET c1 == CallHandlers(insertDomain(ctx, domain, mode), "InsertMX",
                                   <<req.name, req.domain, target, domain>>,
                                   req.tag, req.source, mode)
            IN IF target # domain
               THEN sendNewName(c1, NewName(target, domain, DNS, ForwardDNS))
               ELSE c1

RECURSIVE PublishAddrs(_, _)
PublishAddrs(ctx, ips) ==
    IF ips = <<>> THEN ctx
    ELSE PublishAddrs(Publish(ctx, NewAddr(NoStr, Head(ips), DNS, ForwardDNS)), Tail(ips))

RECURSIVE SendNames(_, _)
SendNames(ctx, names) ==
    IF names = <<>> THEN ctx
    ELSE LET name == Head(names)
             domain == WhichDomain(name)
         IN IF ~IsDomainInScope(name) \/ domain = NoStr
            THEN SendNames(ctx, Tail(names))
            ELSE SendNames(sendNewName(ctx, NewName(name, domain, DNS, ForwardDNS)),
                           Tail(names))

findNamesAndAddresses(ctx, data) ==
    SendNames(PublishAddrs(ctx, IPv4Matches(data)), AnySubdomainMatches(data))

insertTXTAnyName(ctx, req, rec) == findNamesAndAddresses(ctx, rec.data)

insertTXT(ctx, req, rec) ==
    IF ~IsDomainInScope(req.name) THEN ctx ELSE findNamesAndAddresses(ctx, rec.data)

insertSPF(ctx, req, rec) ==
    IF ~IsDomainInScope(req.name) THEN ctx ELSE findNamesAndAddresses(ctx, rec.data)

\* The switch of manageData on the record's type (dns.TypeA, ...).
dispatch(ctx, req, rec, mode) ==
    CASE rec.type = "A" -> insertA(ctx, req, rec, mode)
      [] rec.type = "AAAA" -> insertAAAA(ctx, req, rec, mode)
      [] rec.type = "CNAME" -> insertCNAME(ctx, req, rec, mode)
      [] rec.type = "PTR" -> insertPTR(ctx, req, rec, mode)
      [] rec.type = "SRV" -> insertSRV(ctx, req, rec, mode)
      [] rec.type = "NS" -> insertNS(ctx, req, rec, mode)
      [] rec.type = "MX" -> insertMX(ctx, req, rec, mode)
      [] rec.type = "TXT" -> insertTXT(ctx, req, rec)
      [] rec.type = "SPF" -> insertSPF(ctx, req, rec)
      [] OTHER -> ctx

\* r.Name = strings.ToLower(r.Name); r.Data = strings.ToLower(r.Data) assign
\* to the range variable r: req.Records[i] changes only when the element is
\* shared with r (a slice of pointers), and keeps its case otherwise.
lowerRecord(rec, shared) ==
    IF shared THEN [rec EXCEPT !.name = ToLower(@), !.data = ToLower(@)] ELSE rec

Mark(ctx) == [c |-> Len(ctx.calls), p |-> Len(ctx.pubs), d |-> Len(ctx.dropped)]

\* The loop over req.Records; ctx.marks[i] is where record i's calls and
\* publications start.
RECURSIVE dispatchFrom(_, _, _, _, _)
dispatchFrom(ctx, req, i, mode, shared) ==
    IF i > Len(req.records) THEN ctx
    ELSE dispatchFrom(
             dispatch([ctx EXCEPT !.marks = Append(@, Mark(ctx))], req,
                      lowerRecord(req.records[i], shared), mode),
             req, i + 1, mode, shared)

manageData(ctx, request, mode, shared) ==
    LET req == [request EXCEPT !.name = ToLower(@), !.domain = ToLower(@)] IN
    dispatchFrom(insertDomain(ctx, req.domain, mode), req, 1, mode, shared)

-----------------------------------------------------------------------------
(* Inputs: the CHECKED requests the resolver may deliver.                  *)

nAEC == <<"a", ".", "e", ".", "c">>
nAECUpper == <<"A", ".", "E", ".", "C">>
nAECDot == <<"a", ".", "e", ".", "c", ".">>
nNOT == <<"n", ".", "o", ".", "t">>
nWEC == <<"w", ".", "e", ".", "c">>
nWECDot == <<"w", ".", "e", ".", "c", ".">>
nWECUpperDot == <<"W", ".", "E", ".", "C", ".">>
nMOG == <<"m", ".", "o", ".", "g">>
nXNT == <<"x", ".", "n", ".", "t">>
dECUpper == <<"E", ".", "C">>
dECDot == <<"e", ".", "c", ".">>
svcName == <<"_", "s", ".", "e", ".", "c", ".">>
ip4 == <<"1", ".", "2", ".", "3", ".", "4">>
ip6 == <<"F", ":", ":", "1">>
nsJoined == nAEC \o <<",">> \o nWEC
txtData == <<"v", "=", "1", " ", "i", "p", ":">> \o ip4 \o <<" ", "i", ":">> \o nWEC \o <<" ", "-", "a">>
txtPlain == <<"v", "=", "1">>

Header(name, domain, tag, source) ==
    [name |-> name, domain |-> domain, tag |-> tag, source |-> source]

Headers ==
    { Header(nAEC, dEC, CERT, "Crtsh"),
      Header(nAECUpper, dECUpper, CERT, "Crtsh"),
      Header(nAECDot, dECDot, SCRAPE, "PTRArchive"),
      Header(nNOT, NoStr, SCRAPE, "PTRArchive") }

Rec(type, name, data) == [type |-> type, name |-> name, data |-> data]

RecordTypes == {"A", "AAAA", "CNAME", "PTR", "SRV", "NS", "MX", "TXT", "SPF"}

\* One record with empty data for every type.
EmptyRecords == {Rec(t, svcName, NoStr) : t \in RecordTypes}

DataRecords ==
    { Rec("A", nAEC, ip4), Rec("AAAA", nAEC, ip6),
      Rec("CNAME", nAEC, nWEC), Rec("CNAME", nAEC, nWECUpperDot),
      Rec("CNAME", nAEC, nMOG), Rec("CNAME", nAEC, nXNT),
      Rec("PTR", nAEC, nWECDot), Rec("PTR", nAEC, nXNT),
      Rec("SRV", svcName, nWECDot), Rec("SRV", NoStr, nWEC),
      Rec("NS", nAEC, nsJoined), Rec("NS", nAEC, nWECDot), Rec("NS", nAEC, dEC),
      Rec("MX", nAEC, nWECDot), Rec("MX", nAEC, dEC), Rec("MX", nAEC, nXNT),
      Rec("TXT", nAEC, txtData), Rec("TXT", nAEC, txtPlain),
      Rec("SPF", nAEC, txtData),
      Rec("SOA", nAEC, nWEC) }

\* Requests of several records: what follows a record is still dispatched.
RecordPairs ==
    { <<Rec("A", nAEC, ip4), Rec("CNAME", nAEC, nWEC)>>,
      <<Rec("CNAME", nAEC, NoStr), Rec("AAAA", nAEC, ip6)>>,
      <<Rec("TXT", nAEC, txtData), Rec("PTR", nAEC, nWECDot)>>,
      <<Rec("NS", nAEC, nsJoined), Rec("A", nAEC, ip4), Rec("MX", nAEC, nWECDot)>> }

RecordLists == {<<>>} \cup {<<r>> : r \in EmptyRecords \cup DataRecords} \cup RecordPairs

Request(h, rs) ==
    [name |-> h.name, domain |-> h.domain, tag |-> h.tag, source |-> h.source,
     records |-> rs]

Requests == {Request(h, rs) : h \in Headers, rs \in RecordLists}

Mode(failing, ipOK) == [failing |-> failing, ipOK |-> ipOK]

AllOK == Mode({}, TRUE)

\* At most one handler fails, or the IP metadata lookup fails.
Modes == {AllOK, Mode({}, FALSE)} \cup {Mode({Handlers[i]}, TRUE) : i \in 1..Len(Handlers)}

-----------------------------------------------------------------------------
(* The output stage.  Graph.GetNewOutput may return any list of names.     *)

nBOG == <<"b", ".", "o", ".", "g">>

OutNames == {nAEC, nWEC, nBOG, nNOT}

MaxOut == 2

RECURSIVE SeqsUpTo(_, _)
SeqsUpTo(S, n) ==
    IF n = 0 THEN {<<>>}
    ELSE SeqsUpTo(S, n - 1) \cup
         {Append(q, x) : q \in {r \in SeqsUpTo(S, n - 1) : Len(r) = n - 1}, x \in S}

OutLists == SeqsUpTo(OutNames, MaxOut)

Output(name) == Event("OUTPUT", name, NoStr, NoStr, "", "")

passesAnyName(f, name) == ~FilterDuplicate(f, name)

\* !dms.filter.Duplicate(o.Name) && dms.Enum().Config.IsDomainInScope(o.Name)
passes(f, name) == ~FilterDuplicate(f, name) /\ IsDomainInScope(name)

\* for _, o := range out: st carries dms.filter and the publications.
RECURSIVE outputFrom(_, _, _)
outputFrom(st, out, i) ==
    IF i > Len(out) THEN st
    ELSE outputFrom(
             [filter |-> FilterAdd(st.filter, out[i]),
              pubs |-> IF passes(st.filter, out[i])
                       THEN Append(st.pubs, Output(out[i])) ELSE st.pubs],
             out, i + 1)

\* sendOutput as it would be if it only fed the filter.
sendOutputFilterOnly(f, out) ==
    [filter |-> f \cup {out[i] : i \in 1..Len(out)}, pubs |-> <<>>]

sendOutput(f, out) == outputFrom([filter |-> f, pubs |-> <<>>], out, 1)

RECURSIVE EventNames(_)
EventNames(q) == IF q = <<>> THEN <<>> ELSE <<Head(q).name>> \o EventNames(Tail(q))

-----------------------------------------------------------------------------
(* The source workers.  Each queries the configured roots in turn; a page  *)
(* is text for CertSpotter and PTRArchive and a stream of JSON values for  *)
(* Crtsh.                                                                   *)

Workers == {"Crtsh", "CertSpotter", "PTRArchive"}

RegexWorkers == {"CertSpotter", "PTRArchive"}

SourceType(w) == IF w = "PTRArchive" THEN SCRAPE ELSE CERT

\* idx: the root being queried; pc: "query", "scan" or "done"; todo: what is
\* left of the page; sent: what the last iteration of the loop did with its
\* name, "published" or "suppressed"; req: the request it built.
WorkerAt(idx, pc, todo) ==
    [idx |-> idx, pc |-> pc, todo |-> todo, sent |-> "none",
     req |-> NewName(NoStr, NoStr, "", "")]

Sent(ctx) == IF ctx.dropped # <<>> THEN "suppressed" ELSE "published"

\* cleanName: the name lower-cased and without its trailing dot.
cleanName(name) == removeLastDot(ToLower(name))

\* Config.DomainRegex(domain): one or more labels each followed by a dot,
\* then the root.
MatchesDomainRegex(run, domain) ==
    /\ HasSuffix(run, <<".">> \o domain)
    /\ LET fs == Split(SubSeq(run, 1, Len(run) - Len(domain) - 1), ".") IN
       \A i \in 1..Len(fs) : IsLabel(fs[i])

\* re.FindAllString(page, -1)
FindAllString(page, domain) ==
    SelectSeq(Runs(page), LAMBDA run : MatchesDomainRegex(run, domain))

\* "a.e.c w.e.c b.o.g e.c"
pageText == nAEC \o <<" ">> \o nWEC \o <<" ">> \o nBOG \o <<" ">> \o dEC

Pages == {pageText}

\* What Decode yields for one value of a crt.sh page: a certificate's
\* name_value, or a value that is no certificate object.
Line(name) == [kind |-> "line", name |-> name]
NotAnObject == [kind |-> "type", name |-> NoStr]

jsonGood == <<Line(nAEC), NotAnObject, Line(nWECUpperDot)>>

\* A page that is not JSON: the decoder's syntax error.
Malformed == [kind |-> "syntax", name |-> NoStr]
jsonBad == <<Malformed>>

JsonPages == {jsonGood, jsonBad}

PagesOf(w) == IF w \in RegexWorkers THEN Pages ELSE JsonPages

\* if c.Enum().DupDataSourceName(req) { continue }; c.Enum().Bus.Publish(core.NEWNAME, req)
publishName(ctx, req) ==
    IF DupDataSourceName(ctx, req) THEN Drop(MarkDataSource(ctx, req), req)
    ELSE Publish(MarkDataSource(ctx, req), req)

\* The request a worker builds for a name found while querying a root.
FoundName(w, sd, domain) == NewName(cleanName(sd), domain, SourceType(w), w)

\* The worker after the query of its current root ended.
NextRoot(st) ==
    WorkerAt(st.idx + 1, IF st.idx + 1 > Len(Domains) THEN "done" ELSE "query", <<>>)
-----------------------------------------------------------------------------
(* The driver: processRequests selects over pause, quit, the output tick   *)
(* and the request queue.  dmState is "select" at the select statement and *)
(* "handled" when a case has run and the loop is about to iterate: `last`  *)
(* then holds what the case did.  `prev` holds the step before `last` when *)
(* the queue delivered the same request twice in a row.                    *)

NoRequest == Request(Header(NoStr, NoStr, "", ""), <<>>)

Step(kind, req, mode, out, pre, ctx) ==
    [kind |-> kind, req |-> req, mode |-> mode, out |-> out,
     calls |-> ctx.calls, pubs |-> ctx.pubs, marks |-> ctx.marks,
     drops |-> ctx.dropped,
     preDomains |-> pre.domainFilter, preSources |-> pre.dataSrcFilter,
     preActive |-> active]

Context ==
    [domainFilter |-> domainFilter, dataSrcFilter |-> dataSrcFilter,
     newNames |-> newNames, dropped |-> <<>>,
     calls |-> <<>>, pubs |-> <<>>, marks |-> <<>>]

NoStep == 
    [kind |-> "none", req |-> NoRequest, mode |-> AllOK, out |-> <<>>,
     calls |-> <<>>, pubs |-> <<>>, marks |-> <<>>, drops |-> <<>>,
     preDomains |-> {}, preSources |-> {}, preActive |-> {}]

\* r.Data = strings.ToLower(r.Data), then removeLastDot(req.Records[recidx].Data)
canonicalize(x) == removeLastDot(ToLower(x))

NoCanon == [x |-> NoStr, once |-> NoStr, twice |-> NoStr]

MaxLen == 4

CanonChars == {"a", "B", "."}

CanonStrings == SeqsUpTo(CanonChars, MaxLen)

Init ==
    /\ filter = {}
    /\ domainFilter = {}
    /\ dataSrcFilter = {}
    /\ newNames = <<>>
    /\ wk = [w \in Workers |-> WorkerAt(1, "query", <<>>)]
    /\ output = <<>>
    /\ active = {}
    /\ recordsShared \in BOOLEAN
    /\ dmState = "select"
    /\ last = NoStep
    /\ prev = NoStep
    /\ quit = FALSE
    /\ graphOut = <<>>
    /\ canon = NoCanon

\* dms.manageData(req) and what it leaves behind.
Handle(req, mode) ==
    /\ \E ctx \in {manageData(Context, req, mode, recordsShared)} :
       /\ domainFilter' = ctx.domainFilter
       /\ dataSrcFilter' = ctx.dataSrcFilter
       /\ newNames' = ctx.newNames
       /\ last' = Step("request", req, mode, <<>>, Context, ctx)
    /\ active' = active \cup {"Data Manager"}
    /\ dmState' = "handled"
    /\ UNCHANGED <<filter, output, recordsShared, wk, quit, graphOut, canon>>

\* The case as it would be if the request queue were read while paused.
ManageDataWhilePaused(req, mode) ==
    /\ dmState \in {"select", "paused"}
    /\ Handle(req, mode)
    /\ prev' = NoStep

\* case req := <-dms.RequestChan(): dms.manageData(req)
ManageData(req, mode) ==
    /\ dmState = "select"
    /\ Handle(req, mode)
    /\ prev' = NoStep

\* The next iteration receives the request that was just handled once more.
ManageDataAgain(mode) ==
    /\ dmState = "handled"
    /\ last.kind = "request"
    /\ prev = NoStep
    /\ Handle(last.req, mode)
    /\ prev' = last

\* for { select { ... } }: back to the select statement.
Iterate ==
    /\ dmState = "handled"
    /\ dmState' = "select"
    /\ last' = NoStep
    /\ prev' = NoStep
    /\ UNCHANGED <<filter, domainFilter, dataSrcFilter, newNames, wk,
                   output, active, recordsShared, quit, graphOut, canon>>

\* case <-t.C: dms.sendOutput()
Tick(out) ==
    /\ dmState = "select"
    /\ out = graphOut
    /\ graphOut' = <<>>
    /\ \E st \in {sendOutput(filter, out)} :
       /\ filter' = st.filter
       /\ output' = output \o EventNames(st.pubs)
       /\ last' = [NoStep EXCEPT !.kind = "tick", !.out = out, !.pubs = st.pubs,
                                 !.preActive = active]
    /\ active' = IF Len(out) > 0 THEN active \cup {"Data Manager"} ELSE active
    /\ dmState' = "handled"
    /\ prev' = NoStep
    /\ UNCHANGED <<domainFilter, dataSrcFilter, newNames, wk, recordsShared,
                   quit, canon>>

DriverOnly ==
    /\ last' = NoStep
    /\ prev' = NoStep
    /\ UNCHANGED <<filter, domainFilter, dataSrcFilter, newNames, wk,
                   output, active, recordsShared, quit, graphOut, canon>>

\* case <-dms.PauseChan(): the driver then waits for <-dms.ResumeChan() only.
Pause == dmState = "select" /\ dmState' = "paused" /\ DriverOnly

Resume == dmState = "paused" /\ dmState' = "select" /\ DriverOnly

\* case <-dms.Quit(): return
Quit == dmState = "select" /\ quit /\ dmState' = "done" /\ DriverOnly

\* A worker runs beside the driver.  Its steps are interleaved with the
\* driver's cases: Iterate changes the driver's position only, so a worker
\* step taken before it is the same step taken after it.
\* The enumeration stops the service: the quit channel is closed.
Stop ==
    /\ ~quit
    /\ quit' = TRUE
    /\ UNCHANGED <<filter, domainFilter, dataSrcFilter, newNames, wk, output, active,
                   recordsShared, dmState, last, prev, graphOut, canon>>

\* The enumeration samples the services' activity flags and clears them.
Sample ==
    /\ active # {}
    /\ active' = {}
    /\ UNCHANGED <<filter, domainFilter, dataSrcFilter, newNames, wk, output,
                   recordsShared, dmState, last, prev, quit, graphOut, canon>>

\* The graph has new names to report: the list the next GetNewOutput returns.
GraphAdds(out) ==
    /\ graphOut = <<>>
    /\ out # <<>>
    /\ graphOut' = out
    /\ UNCHANGED <<filter, domainFilter, dataSrcFilter, newNames, wk, output, active,
                   recordsShared, dmState, last, prev, quit, canon>>

\* A string is cleaned, and the result cleaned again.
Canonicalize(x) ==
    /\ canon' = [x |-> x, once |-> canonicalize(x),
                 twice |-> canonicalize(canonicalize(x))]
    /\ UNCHANGED <<filter, domainFilter, dataSrcFilter, newNames, wk, output, active,
                   recordsShared, dmState, last, prev, quit, graphOut>>

WorkerOnly ==
    /\ dmState # "handled"
    /\ UNCHANGED <<filter, domainFilter, output, recordsShared, dmState, last, prev,
                   quit, graphOut, canon>>

\* The failed fetch as it would be if SetActive came before the request.
FetchFailsMarksActive(w) ==
    /\ wk[w].pc = "query"
    /\ wk' = [wk EXCEPT ![w] = NextRoot(@)]
    /\ active' = active \cup {w}
    /\ UNCHANGED <<dataSrcFilter, newNames>>
    /\ WorkerOnly

\* utils.RequestWebPage failed: the root is logged and left.
FetchFails(w) ==
    /\ wk[w].pc = "query"
    /\ wk' = [wk EXCEPT ![w] = NextRoot(@)]
    /\ UNCHANGED <<dataSrcFilter, newNames, active>>
    /\ WorkerOnly

\* utils.RequestWebPage returned a page: SetActive, then the names in it.
Fetch(w, page) ==
    /\ wk[w].pc = "query"
    /\ active' = active \cup {w}
    /\ wk' = [wk EXCEPT ![w] =
                 WorkerAt(@.idx, "scan",
                          IF w \in RegexWorkers
                          THEN FindAllString(page, Domains[@.idx]) ELSE page)]
    /\ UNCHANGED <<dataSrcFilter, newNames>>
    /\ WorkerOnly

\* One iteration of the loop over the matches (CertSpotter, PTRArchive).
ScanMatch(w) ==
    /\ w \in RegexWorkers
    /\ wk[w].pc = "scan"
    /\ IF wk[w].todo = <<>>
       THEN /\ wk' = [wk EXCEPT ![w] = NextRoot(@)]
            /\ UNCHANGED <<dataSrcFilter, newNames>>
       ELSE /\ \E ctx \in {publishName(Context, FoundName(w, Head(wk[w].todo),
                                                          Domains[wk[w].idx]))} :
               /\ dataSrcFilter' = ctx.dataSrcFilter
               /\ newNames' = ctx.newNames
               /\ wk' = [wk EXCEPT ![w].todo = Tail(@), ![w].sent = Sent(ctx),
                                   ![w].req = FoundName(w, Head(wk[w].todo),
                                                        Domains[wk[w].idx])]
    /\ UNCHANGED active
    /\ WorkerOnly

\* One iteration of Crtsh's decode loop: io.EOF ends it, a value that is no
\* certificate object is logged and skipped, and a syntax error is logged
\* and met again by the next Decode.
Decode ==
    LET w == "Crtsh" IN
    /\ wk[w].pc = "scan"
    /\ IF wk[w].todo = <<>>
       THEN /\ wk' = [wk EXCEPT ![w] = NextRoot(@)]
            /\ UNCHANGED <<dataSrcFilter, newNames>>
       ELSE IF Head(wk[w].todo).kind = "syntax"
       THEN UNCHANGED <<wk, dataSrcFilter, newNames>>
       ELSE IF Head(wk[w].todo).kind = "type"
       THEN /\ wk' = [wk EXCEPT ![w].todo = Tail(@)]
            /\ UNCHANGED <<dataSrcFilter, newNames>>
       ELSE /\ \E ctx \in {publishName(Context, FoundName(w, Head(wk[w].todo).name,
                                                          Domains[wk[w].idx]))} :
               /\ dataSrcFilter' = ctx.dataSrcFilter
               /\ newNames' = ctx.newNames
               /\ wk' = [wk EXCEPT ![w].todo = Tail(@), ![w].sent = Sent(ctx),
                                   ![w].req = FoundName(w, Head(wk[w].todo).name,
                                                        Domains[wk[w].idx])]
    /\ UNCHANGED active
    /\ WorkerOnly

WorkerStep ==
    \/ \E w \in Workers : FetchFails(w)
    \/ \E w \in Workers : \E page \in PagesOf(w) : Fetch(w, page)
    \/ \E w \in RegexWorkers : ScanMatch(w)
    \/ Decode

NextData ==
    \/ \E req \in Requests, mode \in Modes : ManageData(req, mode)
    \/ \E mode \in Modes : ManageDataAgain(mode)
    \/ Iterate

\* The Data Manager handling any sequence of CHECKED requests.
SpecData == Init /\ [][NextData]_vars

NextOutput ==
    \/ \E out \in OutLists : GraphAdds(out)
    \/ \E out \in OutLists : Tick(out)
    \/ Iterate

\* The Data Manager handling any sequence of output ticks.
SpecOutput == Init /\ [][NextOutput]_vars

\* The requests that republish a name under a source worker's label.
SourceRequests ==
    { Request(Header(nAEC, dEC, SCRAPE, "PTRArchive"), <<Rec("PTR", nAEC, nWECDot)>>) }

NextSources ==
    \/ WorkerStep
    \/ \E req \in SourceRequests : ManageData(req, AllOK)
    \/ Iterate

\* The source workers running beside the Data Manager.
SpecSources == Init /\ [][NextSources]_vars

\* Requests that reach insertDomain in every way: for the request's own
\* domain (empty, new, seen, upper-case) and for the target of a CNAME, PTR,
\* NS or MX record, the root domain itself among the targets.
DomainRequests ==
    { Request(Header(nAEC, dEC, CERT, "Crtsh"), <<>>),
      Request(Header(nAEC, dEC, CERT, "Crtsh"), <<Rec("CNAME", nAEC, dEC)>>),
      Request(Header(nAECUpper, dECUpper, CERT, "Crtsh"),
              <<Rec("NS", nAEC, dEC), Rec("CNAME", nAEC, nMOG)>>),
      Request(Header(nNOT, NoStr, SCRAPE, "PTRArchive"), <<Rec("MX", nAEC, nMOG)>>),
      Request(Header(nMOG, dOG, DNS, ForwardDNS), <<Rec("PTR", nAEC, dECDot)>>),
      Request(Header(nAEC, dEC, SCRAPE, "PTRArchive"),
              <<Rec("PTR", nAEC, nWECDot), Rec("MX", nAEC, nXNT)>>) }

DomainModes == {AllOK, Mode({Handlers[1]}, TRUE)}

NextDomains ==
    \/ \E req \in DomainRequests, mode \in DomainModes : ManageData(req, mode)
    \/ \E mode \in DomainModes : ManageDataAgain(mode)
    \/ Iterate

\* The Data Manager handling requests that insert domains.
SpecDomains == Init /\ [][NextDomains]_vars

\* Crtsh's goroutine: startRootDomains and the executeQuery calls it makes.
CrtshStep ==
    \/ FetchFails("Crtsh")
    \/ \E page \in JsonPages : Fetch("Crtsh", page)
    \/ Decode

NextCrtsh ==
    \/ CrtshStep
    \/ \E w \in RegexWorkers : FetchFails(w)
    \/ \E w \in RegexWorkers : \E page \in Pages : Fetch(w, page)
    \/ \E w \in RegexWorkers : ScanMatch(w)

\* The sources on their own, Crtsh's goroutine being scheduled whenever it
\* can take a step.
SpecCrtsh == Init /\ [][NextCrtsh]_vars /\ WF_vars(CrtshStep)

\* The requests and the graph output the driver is given beside pause,
\* resume and quit.
DriverRequests ==
    { Request(Header(nAEC, dEC, CERT, "Crtsh"), <<Rec("A", nAEC, ip4)>>),
      Request(Header(nWEC, dEC, CERT, "Crtsh"), <<>>) }

DriverOutLists == {<<nAEC>>, <<nNOT, nWEC>>, <<nWEC, nWEC>>}

\* case <-t.C, with whatever the graph has to report.
TickGraph == \E out \in {graphOut} : Tick(out)

NextDriver ==
    \/ \E req \in DriverRequests : ManageData(req, AllOK)
    \/ \E out \in DriverOutLists : GraphAdds(out)
    \/ TickGraph
    \/ Iterate
    \/ Pause
    \/ Resume
    \/ Stop
    \/ Quit

\* processRequests with its channels.  The select statement chooses among
\* its ready cases at random, so a case that is ready again and again is
\* taken (strong fairness of the tick and the quit case); a case that has
\* run returns to the select.  Nothing obliges the enumeration to resume.
SpecDriver ==
    /\ Init
    /\ [][NextDriver]_vars
    /\ WF_vars(Iterate)
    /\ SF_vars(TickGraph)
    /\ SF_vars(Quit)

ActiveRequests == { Request(Header(nAEC, dEC, CERT, "Crtsh"), <<>>) }

ActiveOutLists == {<<nAEC>>}

\* The sources started beside the Data Manager.
ActiveWorkers == {"Crtsh", "PTRArchive"}

NextActive ==
    \/ \E req \in ActiveRequests : ManageData(req, AllOK)
    \/ \E out \in ActiveOutLists : GraphAdds(out)
    \/ TickGraph
    \/ Iterate
    \/ Pause
    \/ Resume
    \/ Sample
    \/ \E w \in ActiveWorkers : FetchFails(w)
    \/ \E w \in ActiveWorkers : \E page \in PagesOf(w) : Fetch(w, page)
    \/ \E w \in ActiveWorkers \cap RegexWorkers : ScanMatch(w)
    \/ Decode

\* The services whose activity the enumeration samples: the Data Manager
\* with its ticks and pauses, and the sources that were started.
SpecActive == Init /\ [][NextActive]_vars

NextCanon == \E x \in CanonStrings : Canonicalize(x)

\* The cleaning of names, applied to any string.
SpecCanon == Init /\ [][NextCanon]_vars

Next ==
    \/ \E req \in Requests, mode \in Modes : ManageData(req, mode)
    \/ \E mode \in Modes : ManageDataAgain(mode)
    \/ \E out \in OutLists : GraphAdds(out)
    \/ \E out \in OutLists : Tick(out)
    \/ \E x \in CanonStrings : Canonicalize(x)
    \/ Stop
    \/ Sample
    \/ Iterate
    \/ Pause
    \/ Resume
    \/ Quit
    \/ WorkerStep

Spec == Init /\ [][Next]_vars

-----------------------------------------------------------------------------
(* Reading a step: the request as manageData holds it, each record as it   *)
(* is dispatched, and the calls and publications of each record.           *)

Handled == last.kind = "request"

ReqName(st) == ToLower(st.req.name)
ReqDomain(st) == ToLower(st.req.domain)

RecCount(st) == Len(st.req.records)

Dispatched(st, i) == lowerRecord(st.req.records[i], recordsShared)

RecCalls(st, i) ==
    SubSeq(st.calls, st.marks[i].c + 1,
           IF i < Len(st.marks) THEN st.marks[i + 1].c ELSE Len(st.calls))

RecPubs(st, i) ==
    SubSeq(st.pubs, st.marks[i].p + 1,
           IF i < Len(st.marks) THEN st.marks[i + 1].p ELSE Len(st.pubs))

SeqSet(q) == {q[i] : i \in 1..Len(q)}

OfTopic(q, topic) == SelectSeq(q, LAMBDA e : e.topic = topic)

\* A call as a handler receives it, without the handler and its answer.
Received(c) == [op |-> c.op, args |-> c.args, tag |-> c.tag, source |-> c.source]

RECURSIVE MapReceived(_)
MapReceived(q) == IF q = <<>> THEN <<>> ELSE <<Received(Head(q))>> \o MapReceived(Tail(q))

CallsTo(st, h) == MapReceived(SelectSeq(st.calls, LAMBDA c : c.h = h))

\* What the handlers stored: the calls that returned no error.
Stored(st) == {c \in SeqSet(st.calls) : ~c.err}

EdgeOps == {"InsertA", "InsertAAAA", "InsertCNAME", "InsertPTR", "InsertSRV",
            "InsertNS", "InsertMX"}

-----------------------------------------------------------------------------
(* The claims, read on the step the driver made last and on what has been   *)
(* published so far.                                                        *)

\* C1: after any sequence of output ticks, whatever lists GetNewOutput
\* returned, every name published on OUTPUT is in scope and no name has been
\* published on OUTPUT more than once.
C1_OutputInScopeOnce ==
    /\ \A k \in 1..Len(output) : IsDomainInScope(output[k])
    /\ \A j, k \in 1..Len(output) : output[j] = output[k] => j = k

\* A tick whose list repeats an in-scope name and publishes it once, after
\* an earlier tick published another name.
C1_Witness ==
    /\ last.kind = "tick"
    /\ Len(last.out) = 2
    /\ last.out[1] = last.out[2]
    /\ Len(last.pubs) = 1
    /\ Len(output) > 1

TargetOps == {"InsertCNAME", "InsertNS", "InsertMX"}

\* C2, as stated: no insert call (InsertA, InsertAAAA, InsertCNAME,
\* InsertPTR, InsertSRV, InsertNS, InsertMX) is made for a request whose
\* name has no owning root domain or whose domain is empty.
C2_NoInsertWithoutOwner ==
    Handled =>
        \A k \in 1..Len(last.calls) :
            last.calls[k].op \in EdgeOps =>
                /\ IsDomainInScope(ReqName(last))
                /\ ReqDomain(last) # NoStr

\* C2, amended: an edge to a target (CNAME, NS, MX, PTR) is inserted only
\* when the target has an owning root domain, and that domain is the one
\* passed for the target; the request's own name and domain are not checked.
C2_TargetHasOwner ==
    Handled =>
        \A k \in 1..Len(last.calls) :
            LET c == last.calls[k] IN
            /\ c.op \in TargetOps =>
                   c.args[4] # NoStr /\ c.args[4] = WhichDomain(c.args[3])
            /\ c.op = "InsertPTR" =>
                   c.args[2] # NoStr /\ c.args[2] = WhichDomain(c.args[3])

\* An MX edge inserted for a request whose own name is out of scope.
C2_Witness ==
    /\ Handled
    /\ ~IsDomainInScope(ReqName(last))
    /\ \E k \in 1..Len(last.calls) : last.calls[k].op = "InsertMX"

IsCanonical(str) ==
    /\ str = ToLower(str)
    /\ str = NoStr \/ str[Len(str)] # "."

\* The names, domains and targets among a call's arguments (an address is
\* none of them).
NameArgs(c) ==
    CASE c.op \in {"InsertA", "InsertAAAA"} -> <<c.args[1], c.args[2]>>
      [] c.op = "InsertInfrastructure" -> <<>>
      [] OTHER -> c.args

\* C3, as stated: every name, domain and target passed to a handler or
\* put in a republished NEWNAME is lowercase and has no trailing dot.
C3_AllCanonical ==
    Handled =>
        /\ \A k \in 1..Len(last.calls) :
               \A j \in 1..Len(NameArgs(last.calls[k])) :
                   IsCanonical(NameArgs(last.calls[k])[j])
        /\ \A k \in 1..Len(last.pubs) :
               last.pubs[k].topic = "NEWNAME" =>
                   IsCanonical(last.pubs[k].name) /\ IsCanonical(last.pubs[k].domain)

IsAddrRecord(rec) == rec.type \in {"A", "AAAA"}

\* C4: an A or AAAA record with data publishes one NEWADDR with its address
\* and the request's domain, tag and source when the request's name is in
\* scope, and no NEWADDR when it is not.
C4_NewAddrIffInScope ==
    Handled =>
        \A i \in 1..RecCount(last) :
            LET rec == Dispatched(last, i)
                addrs == OfTopic(RecPubs(last, i), "NEWADDR")
            IN (IsAddrRecord(rec) /\ rec.data # NoStr) =>
                   IF IsDomainInScope(ReqName(last))
                   THEN addrs = <<NewAddr(ReqDomain(last), rec.data, last.req.tag,
                                          last.req.source)>>
                   ELSE addrs = <<>>

\* An address record handled for a name in scope while the IP lookup failed.
C4_Witness ==
    /\ Handled
    /\ IsDomainInScope(ReqName(last))
    /\ ~last.mode.ipOK
    /\ \E i \in 1..RecCount(last) :
           /\ IsAddrRecord(Dispatched(last, i))
           /\ Dispatched(last, i).data # NoStr
           /\ Len(RecPubs(last, i)) = 1

\* C5: a CNAME record whose target is under no configured root makes no
\* handler call (no InsertDomain, no InsertCNAME) and publishes nothing.
C5_CnameOutsideRoots ==
    Handled =>
        \A i \in 1..RecCount(last) :
            LET rec == Dispatched(last, i) IN
            (rec.type = "CNAME" /\ WhichDomain(removeLastDot(rec.data)) = NoStr) =>
                RecCalls(last, i) = <<>> /\ RecPubs(last, i) = <<>>

\* A CNAME to a name outside the roots was handled, for a name in scope.
C5_Witness ==
    /\ Handled
    /\ IsDomainInScope(ReqName(last))
    /\ \E i \in 1..RecCount(last) :
           /\ Dispatched(last, i).type = "CNAME"
           /\ Dispatched(last, i).data = nXNT
           /\ RecCalls(last, i) = <<>>

Twice == Handled /\ prev.kind = "request"

\* C6, as stated: feeding a request a second time stores nothing in any
\* handler that the first feeding did not store (the graph is as the first
\* feeding left it), publishes no event the first feeding did not publish,
\* and publishes no more events.  Read on a first feeding that was the first
\* request of the enumeration, when the graph holds what that feeding stored.
C6_SecondFeedingAddsNothing ==
    (Twice /\ prev.preActive = {}) =>
        /\ Stored(last) \subseteq Stored(prev)
        /\ SeqSet(last.pubs) \subseteq SeqSet(prev.pubs)
        /\ Len(last.pubs) <= Len(prev.pubs)

\* C6, amended: the same, the graph part provided the IP metadata lookup and
\* the handlers answer the second feeding as they answered the first.
C6_SecondFeedingSameAnswers ==
    Twice =>
        /\ last.mode = prev.mode => Stored(last) \subseteq Stored(prev)
        /\ SeqSet(last.pubs) \subseteq SeqSet(prev.pubs)
        /\ Len(last.pubs) <= Len(prev.pubs)

\* A second feeding that stored and published something, and published
\* less than the first.
C6_Witness ==
    /\ Twice
    /\ last.mode = prev.mode
    /\ Stored(last) # {}
    /\ last.pubs # <<>>
    /\ Len(last.pubs) < Len(prev.pubs)

\* C7: under every interleaving of the Data Manager and the source workers,
\* an attempt to publish NEWNAME through DupDataSourceName is published if
\* and only if its <<name, source>> tuple was not attempted before: the
\* tuples attempted are the tuples published, each exactly once, so the same
\* name under another source label is published too.
C7_PublishedOncePerTuple ==
    /\ DOMAIN newNames = dataSrcFilter
    /\ \A p \in DOMAIN newNames : newNames[p] = 1

\* One name is published under two source labels, a tuple the Data Manager
\* attempted is published, and a worker's attempt has just been suppressed.
C7_Witness ==
    /\ \E p, q \in DOMAIN newNames : p[1] = q[1] /\ p[2] # q[2]
    /\ \E p \in DOMAIN newNames : p[2] = ForwardDNS
    /\ \E w \in Workers : wk[w].sent = "suppressed"


IsTextRecord(rec) == rec.type \in {"TXT", "SPF"}

InScopeMatches(data) == SelectSeq(AnySubdomainMatches(data), IsDomainInScope)

\* The request's only record is a TXT or SPF record with exactly one IPv4
\* literal and exactly one subdomain token in scope.
OneAddrOneName(st) ==
    /\ RecCount(st) = 1
    /\ IsTextRecord(Dispatched(st, 1))
    /\ Len(IPv4Matches(Dispatched(st, 1).data)) = 1
    /\ Len(InScopeMatches(Dispatched(st, 1).data)) = 1

TextAddr(st) == NewAddr(NoStr, IPv4Matches(Dispatched(st, 1).data)[1], DNS, ForwardDNS)

TextName(st) ==
    LET name == InScopeMatches(Dispatched(st, 1).data)[1] IN
    NewName(name, WhichDomain(name), DNS, ForwardDNS)

\* The (name, source) tuples attempted before record i of the step: those of
\* earlier requests and those published earlier in this request.
AttemptedBefore(st, i) ==
    st.preSources \cup
    {<<st.pubs[k].name, st.pubs[k].source>> :
        k \in {j \in 1..st.marks[i].p : st.pubs[j].topic = "NEWNAME"}}

\* C8, as stated: such a record publishes exactly one NEWADDR and exactly
\* one NEWNAME whatever the filters hold, and nothing when the request's
\* name is out of scope.
C8_OneAddrOneNameAlways ==
    (Handled /\ OneAddrOneName(last)) =>
        IF IsDomainInScope(ReqName(last))
        THEN /\ OfTopic(RecPubs(last, 1), "NEWADDR") = <<TextAddr(last)>>
             /\ OfTopic(RecPubs(last, 1), "NEWNAME") = <<TextName(last)>>
        ELSE RecPubs(last, 1) = <<>>

\* C8, amended: exactly one NEWADDR, and one NEWNAME unless the name was
\* attempted before with the source "Forward DNS", in which case none.
C8_OneAddrNameUnlessAttempted ==
    (Handled /\ OneAddrOneName(last)) =>
        IF IsDomainInScope(ReqName(last))
        THEN /\ OfTopic(RecPubs(last, 1), "NEWADDR") = <<TextAddr(last)>>
             /\ OfTopic(RecPubs(last, 1), "NEWNAME") =
                    IF <<TextName(last).name, ForwardDNS>> \in AttemptedBefore(last, 1)
                    THEN <<>> ELSE <<TextName(last)>>
        ELSE RecPubs(last, 1) = <<>>

\* The record handled when its name had been republished before.
C8_Witness ==
    /\ Handled
    /\ OneAddrOneName(last)
    /\ IsDomainInScope(ReqName(last))
    /\ <<TextName(last).name, ForwardDNS>> \in last.preSources
    /\ Len(RecPubs(last, 1)) = 1

\* C9: a record with empty data makes no handler call and publishes
\* nothing, whatever its type.
C9_EmptyDataNoEffect ==
    Handled =>
        \A i \in 1..RecCount(last) :
            last.req.records[i].data = NoStr =>
                RecCalls(last, i) = <<>> /\ RecPubs(last, i) = <<>>

\* A record with empty data was skipped and the record after it dispatched.
C9_Witness ==
    /\ Handled
    /\ RecCount(last) = 2
    /\ last.req.records[1].data = NoStr
    /\ RecCalls(last, 1) = <<>>
    /\ RecCalls(last, 2) # <<>>

\* The step as manageData would have made it from the same filters with no
\* handler failing.
WithoutFailure(st) ==
    manageData([domainFilter |-> st.preDomains, dataSrcFilter |-> st.preSources,
                newNames |-> <<>>, dropped |-> <<>>,
                calls |-> <<>>, pubs |-> <<>>, marks |-> <<>>],
               st.req, Mode({}, st.mode.ipOK), recordsShared)

\* C10: every handler receives the same calls whether or not a handler
\* fails, and the publications and the records dispatched are those of the
\* run in which none fails.
C10_FailureDoesNotAbort ==
    Handled =>
        /\ \A i, j \in 1..Len(Handlers) :
               CallsTo(last, Handlers[i]) = CallsTo(last, Handlers[j])
        /\ \E ok \in {WithoutFailure(last)} :
               /\ MapReceived(last.calls) = MapReceived(ok.calls)
               /\ last.pubs = ok.pubs
               /\ last.marks = ok.marks

\* The first handler failed on a request of several records, and the
\* second handler was still called for the last record.
C10_Witness ==
    /\ Handled
    /\ last.mode.failing = {Handlers[1]}
    /\ RecCount(last) >= 2
    /\ \E k \in 1..Len(RecCalls(last, RecCount(last))) :
           RecCalls(last, RecCount(last))[k].h = Handlers[2]

-----------------------------------------------------------------------------
(* Claims about the cleaning of names.                                     *)

EndsInTwoDots(x) == Len(x) >= 2 /\ x[Len(x)] = "." /\ x[Len(x) - 1] = "."

\* C13, as stated: cleaning a string twice (lowercase, then removeLastDot)
\* gives what cleaning it once gives, for every string.
C13_Idempotent == canon.twice = canon.once

\* C13, amended: cleaning twice gives what cleaning once gives exactly for
\* the strings that do not end in more than one dot; each cleaning of a
\* string that does strips one more dot.
C13_IdempotentUnlessTwoDots ==
    /\ canon.once = canonicalize(canon.x)
    /\ canon.twice = canonicalize(canon.once)
    /\ (canon.twice = canon.once) <=> ~EndsInTwoDots(canon.x)

\* A name with an upper-case letter and one trailing dot was cleaned.
C13_Witness ==
    /\ Len(canon.x) = MaxLen
    /\ canon.x[MaxLen] = "."
    /\ ~EndsInTwoDots(canon.x)
    /\ "B" \in Range(canon.x)
    /\ canon.twice = canon.once
    /\ canon.once # canon.x

-----------------------------------------------------------------------------
(* Claims about the driver's select loop.                                  *)

\* C11, as stated: once quit is signalled the driver eventually returns,
\* wherever it is blocked: at the select or waiting for resume.
C11_QuitEndsDriver == quit ~> (dmState = "done")

\* C12: from the pause to the resume the driver takes no request, calls no
\* handler and publishes nothing (its filters and publications stay as they
\* are and no case runs); a pause is accepted at the select only, when no
\* manageData or sendOutput call is in progress.
C12_PausedDoesNothing ==
    [][/\ dmState = "paused" =>
              /\ dmState' \in {"paused", "select"}
              /\ last' = NoStep
              /\ UNCHANGED <<filter, domainFilter, dataSrcFilter, newNames, output,
                             active>>
       /\ dmState' = "paused" => (dmState \in {"select", "paused"} /\ last' = NoStep)
      ]_vars

\* The driver is paused after it served a request, while the graph has
\* names to report.
C12_Witness ==
    /\ dmState = "paused"
    /\ domainFilter # {}
    /\ graphOut # <<>>

-----------------------------------------------------------------------------
(* Claims about the source workers.                                        *)

\* C14, as stated: a NEWNAME a source worker publishes while querying root
\* D carries domain D, the worker's source type as tag, the worker's name as
\* source, and a name that matches the domain regex of D.
C14_PublishedUnderRoot ==
    \A w \in Workers :
        wk[w].sent = "published" =>
            /\ wk[w].req.domain = Domains[wk[w].idx]
            /\ wk[w].req.tag = SourceType(w)
            /\ wk[w].req.source = w
            /\ MatchesDomainRegex(wk[w].req.name, Domains[wk[w].idx])

-----------------------------------------------------------------------------
(* Claims about single record types, read on the step that handled the     *)
(* request.                                                                *)

RecDrops(st, i) ==
    SubSeq(st.drops, st.marks[i].d + 1,
           IF i < Len(st.marks) THEN st.marks[i + 1].d ELSE Len(st.drops))

\* The domains insertDomain had seen when record i was dispatched.
DomainsBefore(st, i) ==
    st.preDomains \cup
    {st.calls[k].args[1] : k \in {j \in 1..st.marks[i].c : st.calls[j].op = "InsertDomain"}}

\* The target the claim names: the last comma-separated field of an NS
\* record's data, an MX record's data without its trailing dot.
EdgeTarget(rec) ==
    IF rec.type = "NS" THEN Split(rec.data, ",")[Len(Split(rec.data, ","))]
    ELSE removeLastDot(rec.data)

EdgeOp(rec) == IF rec.type = "NS" THEN "InsertNS" ELSE "InsertMX"

\* C15: for an NS or MX record the edge is inserted, once in every handler,
\* for that target and its domain only, and only when the target has a
\* domain; NEWNAME for the target is sent through the data-source filter
\* if and only if the target differs from its domain (the only other
\* NEWNAME of the record is that of a domain insertDomain had not seen), and
\* it is published unless its tuple was attempted before.
C15_EdgeForLastField ==
    Handled =>
        \A i \in 1..RecCount(last) :
            LET rec == Dispatched(last, i)
                t == EdgeTarget(rec)
                d == SubdomainToDomain(t)
                edges == SelectSeq(RecCalls(last, i),
                                   LAMBDA c : c.op \in {"InsertNS", "InsertMX"})
                names == OfTopic(RecPubs(last, i), "NEWNAME")
                own == NewName(t, d, DNS, ForwardDNS)
            IN rec.type \in {"NS", "MX"} =>
                IF t = NoStr \/ d = NoStr
                THEN /\ RecCalls(last, i) = <<>>
                     /\ RecPubs(last, i) = <<>>
                     /\ RecDrops(last, i) = <<>>
                ELSE /\ MapReceived(edges) =
                            [h \in 1..Len(Handlers) |->
                                [op |-> EdgeOp(rec),
                                 args |-> <<ReqName(last), ReqDomain(last), t, d>>,
                                 tag |-> last.req.tag, source |-> last.req.source]]
                     /\ Len(names) + Len(RecDrops(last, i)) =
                            (IF d \in DomainsBefore(last, i) THEN 0 ELSE 1)
                            + (IF t # d THEN 1 ELSE 0)
                     /\ t # d =>
                            /\ own \in SeqSet(names) \cup SeqSet(RecDrops(last, i))
                            /\ own \in SeqSet(names) <=>
                                   <<t, ForwardDNS>> \notin AttemptedBefore(last, i)
                     /\ RecPubs(last, i) = names

\* An NS record with two comma-separated names was handled: the edge went
\* to every handler and the last name was republished.
C15_Witness ==
    /\ Handled
    /\ \E i \in 1..RecCount(last) :
           /\ Dispatched(last, i).type = "NS"
           /\ Len(Split(Dispatched(last, i).data, ",")) = 2
           /\ \E k \in 1..Len(RecCalls(last, i)) : RecCalls(last, i)[k].op = "InsertNS"
           /\ \E k \in 1..Len(RecPubs(last, i)) :
                  RecPubs(last, i)[k].name = EdgeTarget(Dispatched(last, i))

-----------------------------------------------------------------------------
(* Liveness of the output stage.                                           *)

\* C16: if quit is never signalled and the driver never stays paused for
\* ever, every in-scope name the graph holds for GetNewOutput is eventually
\* published on OUTPUT, whatever requests arrive meanwhile.
C16_OutputEventuallyPublished ==
    ([]~quit /\ []<>(dmState # "paused")) =>
        \A n \in OutNames :
            (n \in SeqSet(graphOut) /\ IsDomainInScope(n)) ~> (n \in SeqSet(output))

\* A tick published a name after requests had been handled and a pause
\* had been resumed or not taken, with no quit.
C16_Witness ==
    /\ ~quit
    /\ last.kind = "tick"
    /\ last.pubs # <<>>
    /\ domainFilter # {}
    /\ "Data Manager" \in last.preActive

-----------------------------------------------------------------------------
(* Failure of the IP metadata lookup.                                      *)

\* The step as manageData would have made it from the same filters had the
\* lookup succeeded.
WithLookup(st) ==
    manageData([domainFilter |-> st.preDomains, dataSrcFilter |-> st.preSources,
                newNames |-> <<>>, dropped |-> <<>>,
                calls |-> <<>>, pubs |-> <<>>, marks |-> <<>>],
               st.req, Mode(st.mode.failing, TRUE), recordsShared)

NotInfrastructure(c) == c.op # "InsertInfrastructure"

\* C17: when IPRequest fails no handler receives InsertInfrastructure, and
\* nothing else changes: every record of the request is dispatched, and the
\* other calls and the publications are those of the step in which the
\* lookup succeeds; the driver goes on to the next request.
C17_LookupFailureDropsInfrastructure ==
    (Handled /\ ~last.mode.ipOK) =>
        /\ \A k \in 1..Len(last.calls) : NotInfrastructure(last.calls[k])
        /\ Len(last.marks) = RecCount(last)
        /\ \E ok \in {WithLookup(last)} :
               /\ last.calls = SelectSeq(ok.calls, NotInfrastructure)
               /\ last.pubs = ok.pubs
               /\ last.drops = ok.dropped
        /\ dmState = "handled"

\* The lookup failed for an address record that was not the last of its
\* request, the record after it reached the handlers, and the request was
\* the second the driver handled.
C17_Witness ==
    /\ Handled
    /\ ~last.mode.ipOK
    /\ last.preDomains # {}
    /\ \E i \in 1..RecCount(last) :
           /\ i < RecCount(last)
           /\ IsAddrRecord(Dispatched(last, i))
           /\ RecCalls(last, i) # <<>>
           /\ RecCalls(last, i + 1) # <<>>

-----------------------------------------------------------------------------
(* Activity marking.                                                       *)

DataManager == "Data Manager"

\* C18: the Data Manager is marked active by a step exactly when the step
\* handles a request or is a tick that found new output; a tick without
\* output, a pause and a resume leave the activity flags as they are.  A
\* source is marked active exactly by a successful fetch; a failed fetch
\* publishes nothing, leaves the flags as they are and moves the source to
\* its next root.
C18_ActivityMarks ==
    [][/\ (dmState = "select" /\ last'.kind = "request") => DataManager \in active'
       /\ (dmState = "select" /\ last'.kind = "tick") =>
              IF last'.out # <<>> THEN DataManager \in active' ELSE active' = active
       /\ (dmState = "select" /\ dmState' = "paused") => active' = active
       /\ (dmState = "paused" /\ dmState' = "select") => active' = active
       /\ (DataManager \in active' /\ DataManager \notin active) =>
              \/ last'.kind = "request"
              \/ last'.kind = "tick" /\ last'.out # <<>>
       /\ \A w \in Workers :
              /\ (wk[w].pc = "query" /\ wk'[w].pc = "scan") => w \in active'
              /\ (wk[w].pc = "query" /\ wk'[w] # wk[w] /\ wk'[w].pc # "scan") =>
                     /\ active' = active
                     /\ newNames' = newNames
                     /\ dataSrcFilter' = dataSrcFilter
                     /\ wk'[w] = NextRoot(wk[w])
              /\ (w \in active' /\ w \notin active) =>
                     (wk[w].pc = "query" /\ wk'[w].pc = "scan")
      ]_vars

\* PTRArchive failed to fetch its first root and is at its second, not
\* marked active and with nothing published, while Crtsh is marked active
\* and the Data Manager, after a tick that found no output, is not.
C18_Witness ==
    /\ wk["PTRArchive"].idx = 2
    /\ wk["PTRArchive"].pc = "query"
    /\ \A p \in dataSrcFilter : p[2] # "PTRArchive"
    /\ active = {"Crtsh"}
    /\ last.kind = "tick"
    /\ last.out = <<>>

-----------------------------------------------------------------------------
(* Termination of Crtsh.                                                   *)

\* C19: Crtsh's executeQuery ends for every response page, a page that is
\* not well-formed JSON included, so that startRootDomains visits every
\* configured root domain and returns.
C19_CrtshVisitsEveryRoot == <>(wk["Crtsh"].pc = "done")

-----------------------------------------------------------------------------
(* Domain insertion.                                                       *)

TargetEdgeOps == {"InsertCNAME", "InsertPTR", "InsertNS", "InsertMX"}

\* The target domain an edge call passes.
EdgeDomain(c) == IF c.op = "InsertPTR" THEN c.args[2] ELSE c.args[4]

\* The domains call k's handler was given by InsertDomain before call k:
\* in an earlier step (the filter holds them) or earlier in this step.
DomainsBeforeCall(st, k) ==
    st.preDomains \cup
    {st.calls[j].args[1] :
        j \in {i \in 1..(k - 1) : /\ st.calls[i].op = "InsertDomain"
                                  /\ st.calls[i].h = st.calls[k].h}}

DomainsCalled(st) == {c.args[1] : c \in {x \in SeqSet(st.calls) : x.op = "InsertDomain"}}

\* The NEWNAME insertDomain sends for a domain.
OwnNewName(d) == NewName(d, d, DNS, ForwardDNS)

Count(q, x) == Len(SelectSeq(q, LAMBDA e : e = x))

\* The sends of a domain's own NEWNAME through the data-source filter.
OwnAttempts(st, d) == Count(st.pubs, OwnNewName(d)) + Count(st.drops, OwnNewName(d))

\* InsertDomain goes to a handler once per domain and never for the empty
\* string; the filter holds the domains the handlers were given, so that a
\* domain given in one step is not given in a later one.
InsertDomainOnce ==
    /\ \A k \in 1..Len(last.calls) :
           last.calls[k].op = "InsertDomain" =>
               /\ last.calls[k].args[1] # NoStr
               /\ last.calls[k].args[1] \notin DomainsBeforeCall(last, k)
    /\ \A d \in DomainsCalled(last) :
           \A h \in 1..Len(Handlers) :
               \E k \in 1..Len(last.calls) :
                   /\ last.calls[k].op = "InsertDomain"
                   /\ last.calls[k].args[1] = d
                   /\ last.calls[k].h = Handlers[h]
    /\ domainFilter = last.preDomains \cup DomainsCalled(last)

\* Every CNAME, PTR, NS or MX edge call comes after the InsertDomain call
\* for its target domain, and after the one for the request's own domain
\* when that is not empty.
InsertDomainBeforeEdge ==
    \A k \in 1..Len(last.calls) :
        last.calls[k].op \in TargetEdgeOps =>
            /\ ToLower(EdgeDomain(last.calls[k])) \in DomainsBeforeCall(last, k)
            /\ ReqDomain(last) # NoStr => ReqDomain(last) \in DomainsBeforeCall(last, k)

Republishing == {"CNAME", "PTR", "TXT", "SPF"}

RecOwnAttempts(st, i, d) ==
    Count(RecPubs(st, i), OwnNewName(d)) + Count(RecDrops(st, i), OwnNewName(d))

====
